---- MODULE Spec2Model ----
\* Model of jsonconfigparser.JSONConfigParser: the configuration store
\* (defaults, ordered sections, per-section layers) and the hand-written
\* scanner of read_string, driven over a small character alphabet.
EXTENDS Integers, Sequences, FiniteSets, TLC

\* ------------------------------------------------------------------
\* Names and values
\* ------------------------------------------------------------------

\* DEFAULT_SECT = 'DEFAULT', written as a one-character name.
DEFAULT_SECT == <<"D">>

\* Section names other than the default that the program is driven with.
SecNames == {<<"a">>, <<"b">>}

\* Option names.
Opts == {<<"a">>, <<"b">>}

\* Decoded JSON values and the markers used for "no entry" and _UNSET.
MkVal(k, n, s) == [k |-> k, n |-> n, s |-> s, e |-> <<>>]
\* a JSON array and its elements
ArrVal(es) == [k |-> "arr", n |-> 0, s |-> <<>>, e |-> es]
Absent == MkVal("absent", 0, <<>>)
UNSET == MkVal("unset", 0, <<>>)
NoneVal == MkVal("null", 0, <<>>)
NumVal(n) == MkVal("num", n, <<>>)
StrVal(s) == MkVal("str", 0, s)

\* Values handed to set() by callers.
SetVals == {NumVal(1), StrVal(<<"a">>)}

EmptyLayer == [o \in Opts |-> Absent]

\* ------------------------------------------------------------------
\* State
\* ------------------------------------------------------------------

\* cfg: _defaults, _sections (insertion order + per-section own layer and
\*      whether the stored mapping is ChainMap({}, _defaults) or a plain dict)
\* last: the operation that ran last, its arguments and its outcome
\* reads: number of read_string calls made in the parser specification
VARIABLES cfg, last, reads

vars == <<cfg, last, reads>>

NoCur == <<"-">>

LastRec(op, sec, opt, val, exc, ret, text) ==
    [op |-> op, sec |-> sec, opt |-> opt, val |-> val, exc |-> exc,
     ret |-> ret, text |-> text, line |-> -1]

\* JSONConfigParser.__init__ with defaults=None
InitCfg == [defaults |-> EmptyLayer,
            order    |-> <<>>,
            own      |-> [s \in SecNames |-> EmptyLayer],
            chained  |-> [s \in SecNames |-> FALSE]]

Init == /\ cfg = InitCfg
        /\ last = LastRec("init", NoCur, NoCur, Absent, "none", FALSE, <<>>)
        /\ reads = 0

\* ------------------------------------------------------------------
\* Queries
\* ------------------------------------------------------------------

Range(q) == {q[i] : i \in DOMAIN q}

\* sections()
Sections(c) == c.order

\* has_section
HasSection(c, s) == s \in Range(c.order)

\* Lookup of option o through a list of layers (ChainMap semantics).
RECURSIVE ChainLookup(_, _)
ChainLookup(layers, o) ==
    IF layers = <<>> THEN Absent
    ELSE IF Head(layers)[o] # Absent THEN Head(layers)[o]
    ELSE ChainLookup(Tail(layers), o)

\* The mapping stored in self._sections[s]
SectDictLayers(c, s) ==
    IF c.chained[s] THEN <<c.own[s], c.defaults>> ELSE <<c.own[s]>>

\* vars argument of get(): either None or a dict
NoVars == [given |-> FALSE, map |-> EmptyLayer]
VarsArgs == {NoVars,
             [given |-> TRUE, map |-> EmptyLayer],
             [given |-> TRUE, map |-> [o \in Opts |->
                                         IF o = <<"a">> THEN NumVal(11) ELSE Absent]]}

FallbackArgs == {UNSET, NoneVal, StrVal(<<"b">>)}

\* get(section, option, fallback, vars=vars); ident says whether the
\* section argument is the very object self.default_section (the code
\* tests `section is self.default_section`).
GetRes(c, s, o, fb, va, ident) ==
    LET base == IF s = DEFAULT_SECT /\ ident THEN <<c.defaults>>
                ELSE IF HasSection(c, s) THEN SectDictLayers(c, s)
                ELSE <<>>
        layers == IF va.given THEN <<va.map>> \o base ELSE base
        found == ChainLookup(layers, o)
    IN IF ~(s = DEFAULT_SECT /\ ident) /\ ~HasSection(c, s)
       THEN [exc |-> "NoSection", val |-> Absent]
       ELSE IF found # Absent THEN [exc |-> "none", val |-> found]
       ELSE IF fb = UNSET THEN [exc |-> "NoOption", val |-> Absent]
       ELSE [exc |-> "none", val |-> fb]

\* has_option
HasOption(c, s, o) ==
    IF s = <<>> \/ s = DEFAULT_SECT THEN c.defaults[o] # Absent
    ELSE IF HasSection(c, s) THEN c.own[s][o] # Absent \/ c.defaults[o] # Absent
    ELSE FALSE

\* __contains__: `key in self.sections` tests membership in the bound
\* method sections, which raises TypeError (a method is not iterable)
ContainsRes(c, key) ==
    IF key = DEFAULT_SECT THEN [exc |-> "none", val |-> TRUE]
    ELSE [exc |-> "TypeError", val |-> FALSE]

\* __iter__
IterSeq(c) == <<DEFAULT_SECT>> \o c.order

\* __len__
CfgLen(c) == Len(c.order) + 1

\* ------------------------------------------------------------------
\* Operations
\* ------------------------------------------------------------------

\* add_section without the duplicate check
AddSectionNoDupCheck(s) ==
    IF s = DEFAULT_SECT
    THEN /\ last' = LastRec("add", s, NoCur, Absent, "ValueError", FALSE, <<>>)
         /\ UNCHANGED cfg
    ELSE /\ cfg' = [cfg EXCEPT !.order = IF s \in Range(@) THEN @ ELSE Append(@, s),
                               !.own[s] = EmptyLayer,
                               !.chained[s] = TRUE]
         /\ last' = LastRec("add", s, NoCur, Absent, "none", FALSE, <<>>)

\* add_section
AddSection(s) ==
    IF s = DEFAULT_SECT
    THEN /\ last' = LastRec("add", s, NoCur, Absent, "ValueError", FALSE, <<>>)
         /\ UNCHANGED cfg
    ELSE IF HasSection(cfg, s)
    THEN /\ last' = LastRec("add", s, NoCur, Absent, "DuplicateSection", FALSE, <<>>)
         /\ UNCHANGED cfg
    ELSE /\ cfg' = [cfg EXCEPT !.order = Append(@, s),
                               !.own[s] = EmptyLayer,
                               !.chained[s] = TRUE]
         /\ last' = LastRec("add", s, NoCur, Absent, "none", FALSE, <<>>)

\* Sequence q without the element x
Remove(q, x) == SelectSeq(q, LAMBDA y : y # x)

\* remove_section: deletes the section and its proxy, returns whether it existed
RemoveSectionCfg(c, s) ==
    IF HasSection(c, s)
    THEN [c EXCEPT !.order = Remove(@, s),
                   !.own[s] = EmptyLayer,
                   !.chained[s] = FALSE]
    ELSE c

RemoveSection(s) ==
    /\ cfg' = RemoveSectionCfg(cfg, s)
    /\ last' = LastRec("remove", s, NoCur, Absent, "none", HasSection(cfg, s), <<>>)

\* __delitem__
DelItem(s) ==
    IF s = DEFAULT_SECT
    THEN /\ last' = LastRec("del", s, NoCur, Absent, "ValueError", FALSE, <<>>)
         /\ UNCHANGED cfg
    ELSE /\ cfg' = RemoveSectionCfg(cfg, s)
         /\ last' = LastRec("del", s, NoCur, Absent,
                            IF HasSection(cfg, s) THEN "none" ELSE "KeyError",
                            FALSE, <<>>)

\* __setitem__ (also reached through update and setdefault): clears the
\* defaults or the own entries of an existing section, then read_dict
\* raises NotImplementedError; the clearing stays.
SetItem(key) ==
    /\ cfg' = IF key = DEFAULT_SECT THEN [cfg EXCEPT !.defaults = EmptyLayer]
              ELSE IF HasSection(cfg, key) THEN [cfg EXCEPT !.own[key] = EmptyLayer]
              ELSE cfg
    /\ last' = LastRec("setitem", key, NoCur, Absent, "NotImplementedError", FALSE, <<>>)

\* sectdict[option] = value, where cur names the mapping written to
WriteOpt(c, cur, o, v) ==
    IF cur = DEFAULT_SECT THEN [c EXCEPT !.defaults[o] = v]
    ELSE [c EXCEPT !.own[cur][o] = v]

\* set
Set(s, o, v) ==
    IF s = <<>> \/ s = DEFAULT_SECT
    THEN /\ cfg' = WriteOpt(cfg, DEFAULT_SECT, o, v)
         /\ last' = LastRec("set", s, o, v, "none", FALSE, <<>>)
    ELSE IF HasSection(cfg, s)
    THEN /\ cfg' = WriteOpt(cfg, s, o, v)
         /\ last' = LastRec("set", s, o, v, "none", FALSE, <<>>)
    ELSE /\ last' = LastRec("set", s, o, v, "NoSection", FALSE, <<>>)
         /\ UNCHANGED cfg

\* ------------------------------------------------------------------
\* read_string scanner
\* ------------------------------------------------------------------

\* The characters of the texts
Alphabet == {"[", "]", "a", "b", "D", "1", " ", "=", "\"", "#", "\n"}
\* [\-\w]
WordChars == {"a", "b", "D", "1"}
\* [\n\r]
NlChars == {"\n"}
\* \s
SpaceChars == {" ", "\n"}

IsNl(ch) == ch \in NlChars

\* first position j >= i where s[j] \notin C (or Len(s)+1)
RECURSIVE RunEnd(_, _, _)
RunEnd(s, i, C) ==
    IF i > Len(s) THEN i
    ELSE IF s[i] \in C THEN RunEnd(s, i + 1, C) ELSE i

\* '^' under re.MULTILINE
AtLineStart(s, i) == i = 1 \/ IsNl(s[i - 1])

\* [\n\r]*([\n\r]|\Z) matched at i: end position, or 0 if no match
EolEnd(s, i) ==
    LET k == RunEnd(s, i, NlChars) IN
    IF k > i \/ k > Len(s) THEN k ELSE 0

\* _header_re.match(string, idx): end position, or 0
HeaderEnd(s, i) ==
    LET w == RunEnd(s, i + 1, WordChars) IN
    IF AtLineStart(s, i) /\ s[i] = "[" /\ w > i + 1 /\ w <= Len(s) /\ s[w] = "]"
    THEN EolEnd(s, w + 1)
    ELSE 0

\* _blank_re.match(string, idx): end position, or 0
BlankEnd(s, i) ==
    LET j == IF s[i] = "#" THEN RunEnd(s, i + 1, Alphabet \ NlChars) ELSE i
    IN IF AtLineStart(s, i) THEN EolEnd(s, j) ELSE 0

\* _key_re.match(string, idx): [ok, key, end]
KeyMatch(s, i) ==
    LET w == RunEnd(s, i, WordChars)
        e == RunEnd(s, w, SpaceChars)
    IN IF AtLineStart(s, i) /\ w > i /\ e <= Len(s) /\ s[e] = "="
       THEN [ok |-> TRUE, key |-> SubSeq(s, i, w - 1), end |-> RunEnd(s, e + 1, SpaceChars)]
       ELSE [ok |-> FALSE, key |-> <<>>, end |-> i]

\* int() of a run of decimal digits
RECURSIVE DigitsVal(_)
DigitsVal(d) ==
    IF d = <<>> THEN 0
    ELSE DigitsVal(SubSeq(d, 1, Len(d) - 1)) * 10 +
         (CASE d[Len(d)] = "1" -> 1)

\* JSON whitespace [ \t\n\r]* over the alphabet
JsonWs == {" ", "\n"}

\* json.JSONDecoder.raw_decode(string, idx) over the alphabet: numbers
\* (-?(0|[1-9]\d*) with only the digit 1 present), strings without
\* escapes and arrays (the alphabet has no ',', so an array holds at most
\* one element). A failure gives ok = FALSE and the position pos of the
\* JSONDecodeError: where a value or ',' was expected (after whitespace),
\* the control character inside a string, or the opening quote of an
\* unterminated string.
RECURSIVE RawDecode(_, _)
RawDecode(s, i) ==
    LET fail(p) == [ok |-> FALSE, val |-> Absent, end |-> i, pos |-> p] IN
    IF i > Len(s) THEN fail(i)
    ELSE IF s[i] = "1"
    THEN LET k == RunEnd(s, i, {"1"}) IN
         [ok |-> TRUE, val |-> NumVal(DigitsVal(SubSeq(s, i, k - 1))), end |-> k, pos |-> 0]
    ELSE IF s[i] = "\""
    THEN LET k == RunEnd(s, i + 1, Alphabet \ ({"\""} \cup NlChars)) IN
         IF k <= Len(s) /\ s[k] = "\""
         THEN [ok |-> TRUE, val |-> StrVal(SubSeq(s, i + 1, k - 1)), end |-> k + 1, pos |-> 0]
         ELSE IF k <= Len(s) THEN fail(k)
         ELSE fail(i)
    ELSE IF s[i] = "["
    THEN LET j == RunEnd(s, i + 1, JsonWs) IN
         IF j <= Len(s) /\ s[j] = "]"
         THEN [ok |-> TRUE, val |-> ArrVal(<<>>), end |-> j + 1, pos |-> 0]
         ELSE LET el == RawDecode(s, j) IN
              IF ~el.ok THEN fail(el.pos)
              ELSE LET k == RunEnd(s, el.end, JsonWs) IN
                   IF k <= Len(s) /\ s[k] = "]"
                   THEN [ok |-> TRUE, val |-> ArrVal(<<el.val>>), end |-> k + 1, pos |-> 0]
                   ELSE fail(k)
    ELSE fail(i)

\* JSONDecodeError.lineno for position p: newlines before p, plus one
JsonLineNo(s, p) ==
    Cardinality({q \in 1..(p - 1) : q <= Len(s) /\ s[q] \in NlChars}) + 1

\* One iteration of the while loop of read_string. st holds the parser
\* (c), idx, cursect (cur), sections_added, entries_added, lineno, the
\* exception raised, if any, and the line number it carries (-1: none).
ScanStep(s, st) ==
    LET i == st.idx IN
    IF s[i] = "[" THEN
        LET he == HeaderEnd(s, i)
            name == SubSeq(s, i + 1, RunEnd(s, i + 1, WordChars) - 1)
        IN IF he = 0 THEN [st EXCEPT !.exc = "TypeError"]
           ELSE IF name \in st.added THEN [st EXCEPT !.exc = "DuplicateSection"]
           ELSE IF name = DEFAULT_SECT
           THEN [st EXCEPT !.added = @ \cup {name}, !.entries = {},
                           !.cur = DEFAULT_SECT, !.idx = he]
           ELSE IF HasSection(st.c, name)
           THEN [st EXCEPT !.added = @ \cup {name}, !.entries = {},
                           !.cur = name, !.idx = he]
           ELSE [st EXCEPT !.added = @ \cup {name}, !.entries = {},
                           !.cur = name, !.idx = he,
                           !.c = [st.c EXCEPT !.order = Append(@, name),
                                              !.own[name] = EmptyLayer,
                                              !.chained[name] = FALSE]]
    ELSE IF s[i] \in {"#", "\n"} THEN
        LET be == BlankEnd(s, i) IN
        IF be = 0 THEN [st EXCEPT !.exc = "AttributeError"]
        ELSE [st EXCEPT !.idx = be]
    ELSE
        LET km == KeyMatch(s, i)
            dv == RawDecode(s, km.end)
            ee == EolEnd(s, dv.end)
        IN IF ~km.ok THEN [st EXCEPT !.exc = "ParseError"]
           \* DuplicateOptionError(sectname, optname, fpname, lineno)
           \* does not match DuplicateOptionError.__init__(self, option)
           ELSE IF km.key \in st.entries THEN [st EXCEPT !.exc = "TypeError"]
           ELSE IF ~dv.ok
           THEN [st EXCEPT !.entries = @ \cup {km.key}, !.exc = "JSONDecodeError",
                           !.line = JsonLineNo(s, dv.pos)]
           \* cursect is None: item assignment on None
           ELSE IF st.cur = NoCur
           THEN [st EXCEPT !.entries = @ \cup {km.key}, !.exc = "TypeError"]
           ELSE IF ee = 0
           THEN [st EXCEPT !.entries = @ \cup {km.key},
                           !.c = WriteOpt(st.c, st.cur, km.key, dv.val),
                           !.exc = "ParseError"]
           ELSE [st EXCEPT !.entries = @ \cup {km.key},
                           !.c = WriteOpt(st.c, st.cur, km.key, dv.val),
                           !.idx = ee]

RECURSIVE ScanLoop(_, _)
ScanLoop(s, st) ==
    IF st.exc # "none" \/ st.idx > Len(s) THEN st
    ELSE ScanLoop(s, ScanStep(s, st))

\* read_string(string) applied to configuration c
ReadStringRes(c, s) ==
    ScanLoop(s, [c |-> c, idx |-> 1, cur |-> NoCur, added |-> {},
                 entries |-> {}, lineno |-> 0, exc |-> "none", line |-> -1])

\* ------------------------------------------------------------------
\* Input texts, built from line fragments
\* ------------------------------------------------------------------

\* A line of a fragment: its kind (header, opt, comment, trail, badheader,
\* junk, badjson) and the section, key and decoded value it carries
Ln(kind, sec, key, val) == [kind |-> kind, sec |-> sec, key |-> key, val |-> val]

\* Line fragments: their characters and their lines
Frags == <<
    [t |-> <<"[", "a", "]", "\n">>,
     ls |-> <<Ln("header", <<"a">>, NoCur, Absent)>>],
    [t |-> <<"[", "b", "]", "\n">>,
     ls |-> <<Ln("header", <<"b">>, NoCur, Absent)>>],
    [t |-> <<"[", "D", "]", "\n">>,
     ls |-> <<Ln("header", DEFAULT_SECT, NoCur, Absent)>>],
    [t |-> <<"a", " ", "=", " ", "1", "\n">>,
     ls |-> <<Ln("opt", NoCur, <<"a">>, NumVal(1))>>],
    [t |-> <<"b", "=", "\"", "a", "\"", "\n">>,
     ls |-> <<Ln("opt", NoCur, <<"b">>, StrVal(<<"a">>))>>],
    [t |-> <<"a", "=", "1", "1", "\n">>,
     ls |-> <<Ln("opt", NoCur, <<"a">>, NumVal(11))>>],
    [t |-> <<"#", "a", "\n">>,
     ls |-> <<Ln("comment", NoCur, NoCur, Absent)>>],
    [t |-> <<"a", " ", "=", " ", "1", "\n", "a", " ", "=", " ", "1", "\n">>,
     ls |-> <<Ln("opt", NoCur, <<"a">>, NumVal(1)), Ln("opt", NoCur, <<"a">>, NumVal(1))>>],
    [t |-> <<"a", " ", "=", " ", "1", " ", "#", "a", "\n">>,
     ls |-> <<Ln("trail", NoCur, <<"a">>, NumVal(1))>>],
    [t |-> <<"[", "a", " ", "b", "]", "\n">>,
     ls |-> <<Ln("badheader", NoCur, NoCur, Absent)>>],
    [t |-> <<" ", "a", "\n">>,
     ls |-> <<Ln("junk", NoCur, NoCur, Absent)>>],
    [t |-> <<"a", " ", "=", " ", "]", "\n">>,
     ls |-> <<Ln("badjson", NoCur, <<"a">>, Absent)>>]
>>

FragIds == DOMAIN Frags

RECURSIVE TextOf(_)
TextOf(fs) == IF fs = <<>> THEN <<>> ELSE Frags[Head(fs)].t \o TextOf(Tail(fs))

\* read_string(TextOf(fs))
ReadString(fs) ==
    LET r == ReadStringRes(cfg, TextOf(fs)) IN
    /\ cfg' = r.c
    /\ last' = [LastRec("read", NoCur, NoCur, Absent, r.exc, FALSE, fs) EXCEPT !.line = r.line]

\* Texts read in the store specification
SpecTexts == {<<1>>, <<2>>, <<1, 4>>, <<3, 5>>, <<4>>, <<1, 1>>}

StoreNext == \/ \E s \in SecNames \cup {DEFAULT_SECT} : AddSection(s)
             \/ \E s \in SecNames \cup {DEFAULT_SECT} : RemoveSection(s)
             \/ \E s \in SecNames \cup {DEFAULT_SECT} : DelItem(s)
             \/ \E s \in SecNames \cup {DEFAULT_SECT, <<>>}, o \in Opts, v \in SetVals : Set(s, o, v)
             \/ \E s \in SecNames \cup {DEFAULT_SECT} : SetItem(s)
             \/ \E fs \in SpecTexts : ReadString(fs)

Next == StoreNext /\ UNCHANGED reads

Spec == Init /\ [][Next]_vars

\* ------------------------------------------------------------------
\* Parser specification: a fresh parser fed a sequence of read_string calls
\* ------------------------------------------------------------------

MaxFrags == 2

MaxReads == 2

RECURSIVE SeqsUpTo(_)
SeqsUpTo(n) == IF n = 0 THEN {<<>>}
               ELSE SeqsUpTo(n - 1) \cup {q \o <<f>> : q \in SeqsUpTo(n - 1), f \in FragIds}

ParseTexts == SeqsUpTo(MaxFrags) \ {<<>>}

ParseNext == /\ reads < MaxReads
             /\ \E fs \in ParseTexts : ReadString(fs)
             /\ reads' = reads + 1

ParseSpec == Init /\ [][ParseNext]_vars

\* ------------------------------------------------------------------
\* Line-level reading of a fragment text, as the format describes it
\* ------------------------------------------------------------------

\* The lines of the fragments fs
RECURSIVE LinesOf(_)
LinesOf(fs) == IF fs = <<>> THEN <<>> ELSE Frags[Head(fs)].ls \o LinesOf(Tail(fs))

\* Folds the lines ls; lines of a kind in optKinds are option lines.
\* Result: the current header, headers and keys seen, the (section, key,
\* value) triples of the option lines before the first problem, the kind
\* of the first problem ("none" if there is none) and its line number.
RECURSIVE FoldLines(_, _, _)
FoldLines(ls, optKinds, st) ==
    IF ls = <<>> \/ st.first # "none" THEN st
    ELSE LET f == Head(ls)
             nx == [st EXCEPT !.line = @ + 1]
         IN FoldLines(Tail(ls), optKinds,
              IF f.kind = "header"
              THEN IF f.sec \in st.hdrs THEN [st EXCEPT !.first = "dupsec"]
                   ELSE [nx EXCEPT !.cur = f.sec, !.hdrs = @ \cup {f.sec}, !.keys = {}]
              ELSE IF f.kind \in optKinds
              THEN IF f.key \in st.keys THEN [st EXCEPT !.first = "dupopt"]
                   ELSE IF st.cur = NoCur THEN [st EXCEPT !.first = "nohdr"]
                   ELSE [nx EXCEPT !.keys = @ \cup {f.key},
                                   !.ents = @ \cup {<<st.cur, f.key, f.val>>}]
              ELSE IF f.kind \in {"comment", "blank"} THEN nx
              ELSE [st EXCEPT !.first = f.kind])

Lines(fs, optKinds) ==
    FoldLines(LinesOf(fs), optKinds, [cur |-> NoCur, hdrs |-> {}, keys |-> {}, ents |-> {},
                             first |-> "none", line |-> 1])

OptLines == {"opt"}

\* get(S, key) returns v for every (S, key, v) in ents, whatever the
\* identity of the section argument
EntriesHold(c, ents) ==
    \A e \in ents, ident \in BOOLEAN :
        GetRes(c, e[1], e[2], UNSET, NoVars, ident) = [exc |-> "none", val |-> e[3]]

\* get(S, key) returns v for every (S, key, v) in ents, the section
\* argument being the default_section object itself for the default
EntriesStored(c, ents) ==
    \A e \in ents :
        GetRes(c, e[1], e[2], UNSET, NoVars, TRUE) = [exc |-> "none", val |-> e[3]]

\* Exceptions of the documented parse-error taxonomy
ParseErrorFamily == {"ParseError", "MissingSectionHeader", "DuplicateSection",
                     "DuplicateOption", "InvalidSectionName", "InvalidOptionName"}

\* ------------------------------------------------------------------
\* Claims
\* ------------------------------------------------------------------

\* Layered lookup as documented: vars, then the section's own entries,
\* then defaults, then the fallback, else NoOption; NoSection for a name
\* that is neither a section nor the default.
ExpectedGet(c, s, o, fb, va) ==
    IF s # DEFAULT_SECT /\ ~HasSection(c, s) THEN [exc |-> "NoSection", val |-> Absent]
    ELSE IF va.given /\ va.map[o] # Absent THEN [exc |-> "none", val |-> va.map[o]]
    ELSE IF s # DEFAULT_SECT /\ c.own[s][o] # Absent THEN [exc |-> "none", val |-> c.own[s][o]]
    ELSE IF c.defaults[o] # Absent THEN [exc |-> "none", val |-> c.defaults[o]]
    ELSE IF fb # UNSET THEN [exc |-> "none", val |-> fb]
    ELSE [exc |-> "NoOption", val |-> Absent]

\* C1: in every reachable configuration, get(S, o, fallback, vars=V) follows
\* the layered lookup vars -> own -> defaults -> fallback -> NoOption, and
\* raises NoSection for a name that is neither a section nor the default.
C1_GetLayered ==
    \A s \in SecNames \cup {DEFAULT_SECT}, o \in Opts, fb \in FallbackArgs,
       va \in VarsArgs, ident \in BOOLEAN :
        GetRes(cfg, s, o, fb, va, ident) = ExpectedGet(cfg, s, o, fb, va)

\* C2: right after set(S, o, v) on an existing section or the default,
\* get(S, o) returns v; after set(default, o, v) every section without an
\* own entry for o returns v; set on an unknown section raises NoSection and
\* changes nothing.
C2_SetThenGet ==
    [][ /\ (last'.op = "set" /\ last'.exc = "none" /\ last'.sec # <<>>) =>
              \A ident \in BOOLEAN :
                  GetRes(cfg', last'.sec, last'.opt, UNSET, NoVars, ident)
                      = [exc |-> "none", val |-> last'.val]
        /\ (last'.op = "set" /\ last'.exc = "none" /\ last'.sec = DEFAULT_SECT) =>
              \A tt \in Range(cfg'.order) :
                  cfg'.own[tt][last'.opt] = Absent =>
                      GetRes(cfg', tt, last'.opt, UNSET, NoVars, TRUE)
                          = [exc |-> "none", val |-> last'.val]
        /\ (last'.op = "set" /\ last'.sec \notin Range(cfg.order) \cup {DEFAULT_SECT, <<>>}) =>
              (last'.exc = "NoSection" /\ cfg' = cfg) ]_vars

\* C3: after read_string of a well-formed text, get(S, key) returns the
\* decoded JSON value of every option line under header [S].
C3_ReadThenGet ==
    (last.op = "read" /\ Lines(last.text, OptLines).first = "none") =>
        /\ last.exc = "none"
        /\ EntriesHold(cfg, Lines(last.text, OptLines).ents)

\* C4: every section, also one created by a [S] header, is layered over
\* defaults: an option S does not own but defaults hold is returned from
\* defaults by get and reported by has_option.
C4_SectionsOverDefaults ==
    \A s \in Range(cfg.order), o \in Opts :
        (cfg.own[s][o] = Absent /\ cfg.defaults[o] # Absent) =>
            /\ GetRes(cfg, s, o, UNSET, NoVars, TRUE) = [exc |-> "none", val |-> cfg.defaults[o]]
            /\ HasOption(cfg, s, o)

\* C5: add_section(s) of a new non-default name makes has_section(s) true
\* and lists s in sections(); adding it again raises DuplicateSection and
\* changes nothing; add_section(default) raises ValueError; after
\* remove_section(s) returns True, has_section(s) is false.
C5_AddRemoveSection ==
    [][ /\ (last'.op = "add" /\ last'.sec = DEFAULT_SECT) => last'.exc = "ValueError"
        /\ (last'.op = "add" /\ last'.sec # DEFAULT_SECT /\ HasSection(cfg, last'.sec)) =>
              (last'.exc = "DuplicateSection" /\ cfg' = cfg)
        /\ (last'.op = "add" /\ last'.sec # DEFAULT_SECT /\ ~HasSection(cfg, last'.sec)) =>
              (last'.exc = "none" /\ HasSection(cfg', last'.sec)
               /\ last'.sec \in Range(Sections(cfg')))
        /\ (last'.op = "remove" /\ last'.ret) => ~HasSection(cfg', last'.sec) ]_vars

C5_Witness ==
    last.op = "add" /\ last.exc = "DuplicateSection" /\ Len(cfg.order) = 2

\* C6: within one read_string a repeated header raises DuplicateSection and
\* a repeated key under one header raises DuplicateOption; a text without
\* internal repetitions raises neither, and its values win over earlier
\* reads.
C6_DuplicatesPerRead ==
    last.op = "read" =>
        LET ln == Lines(last.text, OptLines) IN
        /\ ln.first = "dupsec" => last.exc = "DuplicateSection"
        /\ ln.first = "dupopt" => last.exc = "DuplicateOption"
        /\ ln.first \notin {"dupsec", "dupopt"} =>
              last.exc \notin {"DuplicateSection", "DuplicateOption"}
        /\ ln.first = "none" => EntriesStored(cfg, ln.ents)

\* C7: an option line before any header raises MissingSectionHeader and
\* writes nothing.
C7_MissingHeader ==
    [][ (last'.op = "read" /\ Lines(last'.text, OptLines).first = "nohdr") =>
            (last'.exc = "MissingSectionHeader" /\ cfg' = cfg) ]_vars

\* C8: the default name is never a section; iteration yields the default
\* and then sections() in order; len is 1 + #sections; `name in config`
\* holds exactly for the default and existing sections; remove_section and
\* del of the default raise and change nothing.
C8_DefaultState ==
    /\ DEFAULT_SECT \notin Range(Sections(cfg))
    /\ IterSeq(cfg) = <<DEFAULT_SECT>> \o Sections(cfg)
    /\ CfgLen(cfg) = 1 + Len(Sections(cfg))
    /\ \A n \in SecNames \cup {DEFAULT_SECT} :
          ContainsRes(cfg, n) = [exc |-> "none", val |-> (n = DEFAULT_SECT \/ HasSection(cfg, n))]

C8_DefaultSection ==
    /\ []C8_DefaultState
    /\ [][ (last'.op \in {"remove", "del"} /\ last'.sec = DEFAULT_SECT) =>
              (last'.exc # "none" /\ cfg' = cfg) ]_vars

\* C9: an option line whose value is followed by blanks and/or a '#'
\* comment is stored and scanning goes on without error.
C9_TrailingComment ==
    LET ln == Lines(last.text, OptLines \cup {"trail"}) IN
    (last.op = "read" /\ ln.first = "none") =>
        /\ last.exc = "none"
        /\ EntriesHold(cfg, ln.ents)

\* C10: a malformed header, a line matching no production or invalid
\* trailing content raises an error of the parse-error taxonomy carrying the
\* offending line number; earlier entries of the call stay applied.
C10_ParseErrors ==
    LET ln == Lines(last.text, OptLines) IN
    (last.op = "read" /\ ln.first \in {"badheader", "junk", "badjson", "trail"}) =>
        /\ last.exc \in ParseErrorFamily
        /\ last.line \in {ln.line - 1, ln.line}
        /\ EntriesHold(cfg, ln.ents)

====
